---- MODULE Spec2Model ----
(***************************************************************************)
(* A model of audit.py: the run over the listed repositories, the audit    *)
(* of one repository, process_json and should_skip_advisory with the       *)
(* advisory skip table SKIP_ADVISORIES and the usage tracking set          *)
(* UNMATCHED_SKIP_ADVISORIES.                                              *)
(*                                                                         *)
(* Python values: None is the string NoneVal, a tuple is a sequence, a     *)
(* datetime.date is an integer (a day number), the insertion-ordered dict  *)
(* SKIP_ADVISORIES is a sequence of [key, expiry] records.                 *)
(***************************************************************************)
EXTENDS Integers, Sequences, FiniteSets, TLC

\* ------------------------------------------------------------------ bounds
\* Number of repositories of the listing that one run walks through.
MaxRepos == 2
\* Number of advisory records in one scanner report (warnings + vulnerabilities).
MaxProblems == 2

\* ------------------------------------------------------------- value domains
NoneVal == "<None>"
Star == "*"

ID1 == "RUSTSEC-2020-0159"
ID2 == "RUSTSEC-2021-0145"

Packages == {"chrono", "atty"}
Ids == {ID1, ID2}

\* The two expiry dates of the table in the source, date(2023, 3, 1) and
\* date(2023, 6, 1), as day numbers: Day1 < Day2.
Day1 == 1
Day2 == 2
Days == {Day1, Day2}

AUDIT_ACCOUNTS == {"softdevteam", "ykjit"}

SKIP_REPOS == {<<"softdevteam", "k2">>}

\* What gh.repositories() may list: repositories of both audited accounts
\* (among them two of the same name, see the XXX at SKIP_ADVISORIES), a
\* skipped one, an archived one, one without Rust, one of another account.
GitHubRepos ==
    { [owner |-> "softdevteam", name |-> "yk",    rust |-> TRUE,  archived |-> FALSE],
      [owner |-> "ykjit",       name |-> "yk",    rust |-> TRUE,  archived |-> FALSE],
      [owner |-> "ykjit",       name |-> "ykcbf", rust |-> TRUE,  archived |-> FALSE],
      [owner |-> "softdevteam", name |-> "k2",    rust |-> TRUE,  archived |-> FALSE],
      [owner |-> "softdevteam", name |-> "ykcbf", rust |-> TRUE,  archived |-> TRUE],
      [owner |-> "ykjit",       name |-> "ykcbf", rust |-> FALSE, archived |-> FALSE],
      [owner |-> "ltratt",      name |-> "yk",    rust |-> TRUE,  archived |-> FALSE] }

\* The filter of get_sd_rust_repos.
Listed(r) ==
    /\ r.owner \in AUDIT_ACCOUNTS
    /\ r.rust
    /\ ~r.archived
    /\ <<r.owner, r.name>> \notin SKIP_REPOS

\* CUSTOM_AUDIT_DIRS[(owner, name)], or ["."] on KeyError.
AuditDirs(owner, name) ==
    IF owner = "ykjit" /\ name = "ykcbf" THEN <<"lang_tests">> ELSE <<".">>

\* ------------------------------------------------------------ the skip table
Key(r, p, i) == <<r, p, i>>

\* Key orders of the tables a run is configured with: the empty table, the
\* shape of the table in the source (a rule with a wildcard repository and
\* an exact rule), an exact rule under an all-wildcard rule, two partial
\* wildcard rules that overlap, in both orders, and rules with None fields.
TableKeys ==
    { <<>>,
      << Key(Star, "chrono", ID1),    Key("yk", "atty", ID2) >>,
      << Key(Star, Star, Star),       Key("yk", "chrono", ID1) >>,
      << Key("yk", Star, ID1),        Key(Star, "chrono", Star) >>,
      << Key(Star, "chrono", Star),   Key("yk", Star, ID1) >>,
      << Key("yk", NoneVal, NoneVal), Key(Star, NoneVal, Star) >> }

\* The expiry dates of a table: each rule expires on Day1 or Day2, and not
\* all on Day1 (with today on Day1 or Day2 every rule is still seen before,
\* on and after its expiry date, alone and next to a rule in another case).
Expiries(ks) ==
    { e \in [1..Len(ks) -> Days] : Len(ks) = 0 \/ \E i \in 1..Len(ks) : e[i] = Day2 }

Tables ==
    UNION { { [i \in 1..Len(ks) |-> [key |-> ks[i], expiry |-> e[i]]] :
                e \in Expiries(ks) } : ks \in TableKeys }

VARIABLES
    SKIP_ADVISORIES,            \* the table: a sequence of [key, expiry]
    today,                      \* date.today()
    single_repo,                \* sys.argv[2] or NoneVal
    UNMATCHED_SKIP_ADVISORIES,  \* keys not yet matched
    pc,                         \* position of the run
    visited,                    \* repositories of the listing walked so far
    cur,                        \* the repository being audited
    dirs,                       \* audit(): audit dirs still to do
    ok,                         \* audit(): ok
    todo,                       \* process_json(): problems not yet classified
    ret,                        \* process_json(): ret
    problematic,                \* __main__: names of failing repositories
    reported,                   \* __main__: the unmatched skips printed
    exit,                       \* the exit status of the process (-1: running)
    last,                       \* history: the last should_skip_advisory call
    scan,                       \* history: the scan of the audit in progress
    lastAudit,                  \* history: the audit() call that returned last
    failing,                    \* history: names for which audit() returned False
    matchedBy,                  \* history: rules that match a classified tuple
    chosenBy                    \* history: rules that are the first match of one

vars == << SKIP_ADVISORIES, today, single_repo, UNMATCHED_SKIP_ADVISORIES, pc,
           visited, cur, dirs, ok, todo, ret, problematic, reported,
           exit, last, scan, lastAudit, failing, matchedBy, chosenBy >>

Keys == { SKIP_ADVISORIES[i].key : i \in 1..Len(SKIP_ADVISORIES) }

\* ----------------------------------------------------- should_skip_advisory
\* match_list: adv_tup with "*" written where skip_tup has "*".
MatchList(adv_tup, skip_tup) ==
    [idx \in 1..3 |-> IF skip_tup[idx] = Star THEN Star ELSE adv_tup[idx]]

\* A match that is content with one agreeing field.
WildMatchAnyField(adv_tup, skip_tup) ==
    \E idx \in 1..3 : MatchList(adv_tup, skip_tup)[idx] = skip_tup[idx]

\* tuple(match_list) == skip_tup
WildMatch(adv_tup, skip_tup) == MatchList(adv_tup, skip_tup) = skip_tup

\* adv_tup in SKIP_ADVISORIES
ExactIndex(adv_tup) ==
    { i \in 1..Len(SKIP_ADVISORIES) : SKIP_ADVISORIES[i].key = adv_tup }

\* The loop without its break: the last rule that matches.
LastWild(adv_tup) ==
    LET hits == { i \in 1..Len(SKIP_ADVISORIES) :
                    WildMatch(adv_tup, SKIP_ADVISORIES[i].key) }
    IN  IF hits = {} THEN 0
        ELSE CHOOSE i \in hits : \A j \in hits : i >= j

\* The for loop over SKIP_ADVISORIES.items() with its break: the index of
\* the first rule that matches, 0 when the loop ends without a match.
FirstWild(adv_tup) ==
    LET hits == { i \in 1..Len(SKIP_ADVISORIES) :
                    WildMatch(adv_tup, SKIP_ADVISORIES[i].key) }
    IN  IF hits = {} THEN 0
        ELSE CHOOSE i \in hits : \A j \in hits : i <= j

\* expiry <= date.today(): the skip has expired.
Expired(expiry, day) == expiry <= day

\* if skip_tup in UNMATCHED_SKIP_ADVISORIES: UNMATCHED_SKIP_ADVISORIES.remove(skip_tup)
RemoveIfPresent(unm, k) == unm \ {k}

\* One call: [raised, ret, unmatched, rule] where rule is the index of the
\* rule the call selected (0: none). In the exact branch set.remove raises
\* KeyError when the key has left the set.
ShouldSkipAdvisory(adv_tup, unm) ==
    IF ExactIndex(adv_tup) # {}
    THEN LET i == CHOOSE j \in ExactIndex(adv_tup) : TRUE IN
         IF adv_tup \notin unm
         THEN [raised |-> TRUE, ret |-> FALSE, unmatched |-> unm, rule |-> i]
         ELSE [raised |-> FALSE,
               ret |-> ~Expired(SKIP_ADVISORIES[i].expiry, today),
               unmatched |-> unm \ {adv_tup}, rule |-> i]
    ELSE LET i == FirstWild(adv_tup) IN
         IF i = 0
         THEN [raised |-> FALSE, ret |-> FALSE, unmatched |-> unm, rule |-> 0]
         ELSE [raised |-> FALSE,
               ret |-> ~Expired(SKIP_ADVISORIES[i].expiry, today),
               unmatched |-> RemoveIfPresent(unm, SKIP_ADVISORIES[i].key),
               rule |-> i]

\* ------------------------------------------------------------- process_json
\* An advisory field of a warning or a vulnerability: None or {package, id}.
NoAdv == [package |-> NoneVal, id |-> NoneVal]
Advisories == {NoAdv} \cup [package : Packages, id : Ids]

\* Output that json.loads cannot parse.
Malformed == [text |-> "garbage", warnings |-> {}, vulnerabilities |-> {}]

\* The reports cargo audit --json may print: the advisories of the warnings
\* (all kinds flattened) and of the vulnerabilities list.
Reports ==
    { j \in [text : {"json"}, warnings : SUBSET Advisories,
             vulnerabilities : SUBSET Advisories] :
        Cardinality(j.warnings) + Cardinality(j.vulnerabilities) <= MaxProblems }

\* The two loops that fill `problems`.
Problems(repo_name, js) ==
    { Key(repo_name, adv.package, adv.id) : adv \in js.warnings \cup js.vulnerabilities }

\* ret = should_skip_advisory(tup): the last verdict alone.
AccumulateLast(r, skip) == skip

\* if not should_skip_advisory(tup): ret = False
Accumulate(r, skip) == IF ~skip THEN FALSE ELSE r

\* -------------------------------------------------------------------- audit
\* A scan that also fails on a non-zero exit status.
ScanFailedOnStatus(out, status) == out.text # "json" \/ status # 0

\* json.loads(sout) raises JSONDecodeError; the exit status is not read.
ScanFailed(out, status) == out.text # "json"

\* The except branch without its ok = False.
OkKept(o) == o

\* ok after the except branch of json.loads.
OkAfterMalformed(o) == FALSE

\* ok after process_json returned r.
OkAfterProcess(o, r) == IF ~r THEN FALSE ELSE o

\* ----------------------------------------------------------------- __main__
\* if single_repo and single_repo != r.name: continue
NotTheSingleRepo(r) == single_repo # NoneVal /\ single_repo # r.name

\* problematic after `if not res: problematic.append(r.name)`.
Problematic(lst, name, res) == IF ~res THEN Append(lst, name) ELSE lst

\* An exit status that also fails on unmatched skips.
ExitStatusUnused(lst, unm) == IF lst # <<>> \/ unm # {} THEN 1 ELSE 0

\* sys.exit(1) when problematic is not empty, else the script ends (0).
ExitStatus(lst, unm) == IF lst # <<>> THEN 1 ELSE 0

\* ------------------------------------------------- the claims' own notions
\* A rule matches a problem when each field is "*" or equal.
PerFieldMatch(rule, p) == \A i \in 1..3 : rule[i] = Star \/ rule[i] = p[i]

\* The rule a problem is to select: its exact key, else the first rule in
\* table order that matches it per field, else none (0).
Selected(p) ==
    LET exact == { i \in 1..Len(SKIP_ADVISORIES) : SKIP_ADVISORIES[i].key = p }
        wild  == { i \in 1..Len(SKIP_ADVISORIES) :
                     PerFieldMatch(SKIP_ADVISORIES[i].key, p) }
    IN  IF exact # {} THEN CHOOSE i \in exact : TRUE
        ELSE IF wild # {} THEN CHOOSE i \in wild : \A j \in wild : i <= j
        ELSE 0

\* SkippedActive: a rule is selected and its expiry is strictly after today.
Active(p) == Selected(p) # 0 /\ SKIP_ADVISORIES[Selected(p)].expiry > today

NoCall == [tup |-> <<>>, rule |-> 0, result |-> "none", before |-> {}, after |-> {}]
NoScan == [status |-> "none", text |-> "none", nonzero |-> FALSE, before |-> {},
           problems |-> {}, verdicts |-> {}, pjret |-> TRUE]
NoAudit == [name |-> NoneVal, res |-> TRUE, scan |-> NoScan]
NoRepo == [owner |-> NoneVal, name |-> NoneVal]

Init ==
    /\ SKIP_ADVISORIES \in Tables
    /\ today \in Days
    /\ single_repo \in {NoneVal, "ykcbf"}
    /\ UNMATCHED_SKIP_ADVISORIES = Keys
    /\ pc = "main"
    /\ visited = {}
    /\ cur = NoRepo
    /\ dirs = <<>>
    /\ ok = TRUE
    /\ todo = {}
    /\ ret = TRUE
    /\ problematic = <<>>
    /\ reported = {}
    /\ exit = -1
    /\ last = NoCall
    /\ scan = NoScan
    /\ lastAudit = NoAudit
    /\ failing = <<>>
    /\ matchedBy = {}
    /\ chosenBy = {}

\* audit() returns res to the loop of __main__, which appends to problematic.
AuditLocals(res) ==
    /\ lastAudit' = [name |-> cur.name, res |-> res, scan |-> scan]
    /\ failing' = IF res THEN failing ELSE Append(failing, cur.name)
    /\ problematic' = Problematic(problematic, cur.name, res)
    /\ pc' = "main"
    /\ cur' = NoRepo
    /\ dirs' = <<>>
    /\ ok' = TRUE
    /\ todo' = {}
    /\ ret' = TRUE
    /\ scan' = NoScan
    /\ last' = NoCall

\* An uncaught exception ends the process with status 1.
Crash ==
    /\ pc' = "crashed"
    /\ exit' = 1

\* for r in repos: ... continue
SkipRepo(r) ==
    /\ pc = "main" /\ Cardinality(visited) < MaxRepos
    /\ Listed(r) /\ r \notin visited
    /\ NotTheSingleRepo(r)
    /\ visited' = visited \cup {r}
    /\ lastAudit' = NoAudit
    /\ UNCHANGED << SKIP_ADVISORIES, today, single_repo, UNMATCHED_SKIP_ADVISORIES, pc,
                    cur, dirs, ok, todo, ret, problematic, reported,
                    exit, last, scan, failing, matchedBy, chosenBy >>

\* for r in repos: res = audit(r.name, r.owner.login, r.clone_url)
StartAudit(r) ==
    /\ pc = "main" /\ Cardinality(visited) < MaxRepos
    /\ Listed(r) /\ r \notin visited
    /\ ~NotTheSingleRepo(r)
    /\ visited' = visited \cup {r}
    /\ cur' = [owner |-> r.owner, name |-> r.name]
    /\ lastAudit' = NoAudit
    /\ pc' = "git"
    /\ UNCHANGED << SKIP_ADVISORIES, today, single_repo, UNMATCHED_SKIP_ADVISORIES,
                    dirs, ok, todo, ret, problematic, reported,
                    exit, last, scan, failing, matchedBy, chosenBy >>

\* git clone / git pull fails: return False
GitFails ==
    /\ pc = "git"
    /\ AuditLocals(FALSE)
    /\ UNCHANGED << SKIP_ADVISORIES, today, single_repo, UNMATCHED_SKIP_ADVISORIES,
                    visited, reported, exit, matchedBy, chosenBy >>

\* git clone (the directory did not exist) or git pull (it did) succeeds
GitOk ==
    /\ pc = "git"
    /\ pc' = "submodule"
    /\ UNCHANGED << SKIP_ADVISORIES, today, single_repo, UNMATCHED_SKIP_ADVISORIES,
                    visited, cur, dirs, ok, todo, ret, problematic, reported,
                    exit, last, scan, lastAudit, failing, matchedBy, chosenBy >>

\* git submodule update fails: return False
SubmoduleFails ==
    /\ pc = "submodule"
    /\ AuditLocals(FALSE)
    /\ UNCHANGED << SKIP_ADVISORIES, today, single_repo, UNMATCHED_SKIP_ADVISORIES,
                    visited, reported, exit, matchedBy, chosenBy >>

SubmoduleOk ==
    /\ pc = "submodule"
    /\ dirs' = AuditDirs(cur.owner, cur.name)
    /\ ok' = TRUE
    /\ pc' = "dir"
    /\ UNCHANGED << SKIP_ADVISORIES, today, single_repo, UNMATCHED_SKIP_ADVISORIES,
                    visited, cur, todo, ret, problematic, reported,
                    exit, last, scan, lastAudit, failing, matchedBy, chosenBy >>

\* No Cargo.toml: ok = False; continue
NoCargoToml ==
    /\ pc = "dir" /\ dirs # <<>>
    /\ ok' = FALSE
    /\ dirs' = Tail(dirs)
    /\ UNCHANGED << SKIP_ADVISORIES, today, single_repo, UNMATCHED_SKIP_ADVISORIES, pc,
                    visited, cur, todo, ret, problematic, reported,
                    exit, last, scan, lastAudit, failing, matchedBy, chosenBy >>

\* The checkout existed, Cargo.lock is there and git does not track it, and
\* cargo update fails: the CalledProcessError is not caught.
CargoUpdateFails ==
    /\ pc = "dir" /\ dirs # <<>>
    /\ Crash
    /\ UNCHANGED << SKIP_ADVISORIES, today, single_repo, UNMATCHED_SKIP_ADVISORIES,
                    visited, cur, dirs, ok, todo, ret, problematic,
                    reported, last, scan, lastAudit, failing, matchedBy, chosenBy >>

\* cargo audit runs and prints what json.loads rejects: ok = False; continue
ScanUnparsable(out, status) ==
    /\ pc = "dir" /\ dirs # <<>>
    /\ ScanFailed(out, status)
    /\ ok' = OkAfterMalformed(ok)
    /\ dirs' = Tail(dirs)
    /\ scan' = [NoScan EXCEPT !.status = "unparsable", !.text = out.text,
                              !.nonzero = (status # 0),
                              !.before = UNMATCHED_SKIP_ADVISORIES]
    /\ UNCHANGED << SKIP_ADVISORIES, today, single_repo, UNMATCHED_SKIP_ADVISORIES, pc,
                    visited, cur, todo, ret, problematic, reported,
                    exit, last, lastAudit, failing, matchedBy, chosenBy >>

\* cargo audit runs and prints a report: js = json.loads(sout), then
\* process_json(name, js) up to its last loop
ScanParsed(out, status) ==
    /\ pc = "dir" /\ dirs # <<>>
    /\ ~ScanFailed(out, status)
    /\ todo' = Problems(cur.name, out)
    /\ ret' = TRUE
    /\ scan' = [NoScan EXCEPT !.status = "parsed", !.text = out.text,
                              !.nonzero = (status # 0),
                              !.before = UNMATCHED_SKIP_ADVISORIES,
                              !.problems = Problems(cur.name, out)]
    /\ pc' = "classify"
    /\ UNCHANGED << SKIP_ADVISORIES, today, single_repo, UNMATCHED_SKIP_ADVISORIES,
                    visited, cur, dirs, ok, problematic, reported,
                    exit, last, lastAudit, failing, matchedBy, chosenBy >>

\* for tup in problems: if not should_skip_advisory(tup): ret = False
Classify(tup) ==
    /\ pc = "classify"
    /\ tup \in todo
    /\ LET r == ShouldSkipAdvisory(tup, UNMATCHED_SKIP_ADVISORIES)
           res == IF r.raised THEN "KeyError" ELSE IF r.ret THEN "True" ELSE "False"
       IN
       /\ last' = [tup |-> tup, rule |-> r.rule, result |-> res,
                   before |-> UNMATCHED_SKIP_ADVISORIES, after |-> r.unmatched]
       /\ scan' = [scan EXCEPT !.verdicts = @ \cup {[tup |-> tup, res |-> res]}]
       /\ matchedBy' = matchedBy \cup { k \in Keys : PerFieldMatch(k, tup) }
       /\ chosenBy' = chosenBy \cup
                        { SKIP_ADVISORIES[i].key : i \in {Selected(tup)} \ {0} }
       /\ UNMATCHED_SKIP_ADVISORIES' = r.unmatched
       /\ IF r.raised
          THEN /\ Crash
               /\ UNCHANGED << todo, ret >>
          ELSE /\ todo' = todo \ {tup}
               /\ ret' = Accumulate(ret, r.ret)
               /\ UNCHANGED << pc, exit >>
    /\ UNCHANGED << SKIP_ADVISORIES, today, single_repo, visited, cur,
                    dirs, ok, problematic, reported, lastAudit, failing >>

\* return ret; if not process_json(name, js): ok = False (and the human
\* readable rerun, whose failure is ignored)
ProcessJsonReturn ==
    /\ pc = "classify"
    /\ todo = {}
    /\ ok' = OkAfterProcess(ok, ret)
    /\ dirs' = Tail(dirs)
    /\ scan' = [scan EXCEPT !.status = "returned", !.pjret = ret]
    /\ last' = NoCall
    /\ pc' = "dir"
    /\ UNCHANGED << SKIP_ADVISORIES, today, single_repo, UNMATCHED_SKIP_ADVISORIES,
                    visited, cur, todo, ret, problematic, reported,
                    exit, lastAudit, failing, matchedBy, chosenBy >>

\* return ok; if not res: problematic.append(r.name)
AuditReturn ==
    /\ pc = "dir" /\ dirs = <<>>
    /\ AuditLocals(ok)
    /\ UNCHANGED << SKIP_ADVISORIES, today, single_repo, UNMATCHED_SKIP_ADVISORIES,
                    visited, reported, exit, matchedBy, chosenBy >>

\* The end of the for loop: the unmatched skips are printed, then the
\* failing repositories, and the process exits.
Report ==
    /\ pc = "main"
    /\ reported' = UNMATCHED_SKIP_ADVISORIES
    /\ exit' = ExitStatus(problematic, UNMATCHED_SKIP_ADVISORIES)
    /\ lastAudit' = NoAudit
    /\ pc' = "done"
    /\ UNCHANGED << SKIP_ADVISORIES, today, single_repo, UNMATCHED_SKIP_ADVISORIES,
                    visited, cur, dirs, ok, todo, ret, problematic,
                    last, scan, failing, matchedBy, chosenBy >>

Next ==
    \/ \E r \in GitHubRepos : SkipRepo(r)
    \/ \E r \in GitHubRepos : StartAudit(r)
    \/ GitFails
    \/ GitOk
    \/ SubmoduleFails
    \/ SubmoduleOk
    \/ NoCargoToml
    \/ CargoUpdateFails
    \/ \E out \in Reports \cup {Malformed}, status \in {0, 1} : ScanUnparsable(out, status)
    \/ \E out \in Reports \cup {Malformed}, status \in {0, 1} : ScanParsed(out, status)
    \/ \E tup \in todo : Classify(tup)
    \/ ProcessJsonReturn
    \/ AuditReturn
    \/ Report

Spec == Init /\ [][Next]_vars

\* ------------------------------------------------------------------ claims
KeyOf(i) == SKIP_ADVISORIES[i].key
ExpiryOf(i) == SKIP_ADVISORIES[i].expiry
HasNone(p) == \E f \in 1..Len(p) : p[f] = NoneVal
ExactRules(p) == { i \in 1..Len(SKIP_ADVISORIES) : KeyOf(i) = p }
MatchingRules(p) == { i \in 1..Len(SKIP_ADVISORIES) : PerFieldMatch(KeyOf(i), p) }
First(S) == CHOOSE i \in S : \A j \in S : i <= j
Verdict(b) == IF b THEN "True" ELSE "False"
Called == last.tup # <<>>

\* C1: usage marking is idempotent. A call that matches a rule removes it
\* from UNMATCHED_SKIP_ADVISORIES when it is there; a call that matches a
\* rule matched before (through a wildcard rule or through an exact key)
\* completes with a verdict and leaves the rule absent from the set.
C1_UsageMarkingIdempotent ==
    (Called /\ last.rule # 0) =>
        /\ last.result \in {"True", "False"}
        /\ last.after = last.before \ {KeyOf(last.rule)}

\* The wildcard half of C1: a later match through the wildcard scan
\* completes with a verdict, the rule stays out of the set.
WildcardRematchCompletes ==
    (Called /\ last.rule # 0 /\ ExactRules(last.tup) = {}) =>
        /\ last.result \in {"True", "False"}
        /\ last.after = last.before \ {KeyOf(last.rule)}

WildcardRematchHappens ==
    /\ Called /\ last.rule # 0 /\ ExactRules(last.tup) = {}
    /\ KeyOf(last.rule) \notin last.before

\* C2: exact match wins over wildcard match. When the table holds the
\* problem as an exact key and wildcard rules that match it too, the call
\* selects the exact rule, gives the verdict of the exact rule's expiry date
\* and removes only the exact rule; with wildcard matches only it selects
\* the first in table order; no call removes more than one rule.
C2_ExactWinsOverWildcard ==
    Called =>
        LET exact == ExactRules(last.tup)
            wild  == MatchingRules(last.tup) \ exact
        IN  /\ (exact # {} /\ wild # {}) =>
                 \A i \in exact :
                    /\ last.rule = i
                    /\ last.result = Verdict(ExpiryOf(i) > today)
                    /\ last.after = last.before \ {last.tup}
            /\ (exact = {} /\ wild # {}) =>
                    /\ last.rule = First(wild)
                    /\ last.after = last.before \ {KeyOf(First(wild))}
            /\ Cardinality(last.before \ last.after) <= 1

\* C2 on the calls that return: the exact rule is the one selected and the
\* one whose expiry date decides.
ExactWinsWhenTheCallReturns ==
    (Called /\ last.result # "KeyError") =>
        LET exact == ExactRules(last.tup) IN
        \A i \in exact :
            /\ last.rule = i
            /\ last.result = Verdict(ExpiryOf(i) > today)
            /\ last.after = last.before \ {last.tup}

\* C3: expiry boundary. For a problem that matches a rule the call returns
\* True iff the rule's expiry date is strictly later than today; with the
\* expiry date today or earlier the verdict is a failing one, and the rule
\* has left the unused set all the same.
C3_ExpiryBoundary ==
    (Called /\ last.rule # 0) =>
        /\ (last.result = "True") <=> (ExpiryOf(last.rule) > today)
        /\ (ExpiryOf(last.rule) <= today) => last.result = "False"
        /\ KeyOf(last.rule) \notin last.after

\* C3 on the calls that return.
ExpiryBoundaryWhenTheCallReturns ==
    (Called /\ last.rule # 0 /\ last.result # "KeyError") =>
        /\ (last.result = "True") <=> (ExpiryOf(last.rule) > today)
        /\ KeyOf(last.rule) \notin last.after

\* C4: a problem that no rule matches, exactly or through wildcards, gets
\* False and leaves UNMATCHED_SKIP_ADVISORIES as it was.
C4_UnmatchedLeavesUnusedSet ==
    (Called /\ MatchingRules(last.tup) = {}) =>
        /\ last.rule = 0
        /\ last.result = "False"
        /\ last.after = last.before
        /\ UNMATCHED_SKIP_ADVISORIES = last.before

C4_Witness ==
    /\ Called /\ MatchingRules(last.tup) = {}
    /\ last.result = "False"
    /\ last.before # {} /\ last.before # Keys

\* C5: process_json returns True exactly when should_skip_advisory returned
\* True for every distinct problem of the report, that is when every one is
\* SkippedActive; an empty problem set passes, one problem that is not
\* SkippedActive fails it.
C5_ScanPassesIffAllActive ==
    /\ (scan.status = "returned") =>
        /\ { v.tup : v \in scan.verdicts } = scan.problems
        /\ scan.pjret = (\A v \in scan.verdicts : v.res = "True")
        /\ scan.pjret = (\A p \in scan.problems : Active(p))
        /\ (scan.problems = {}) => scan.pjret
    /\ (pc = "crashed" /\ scan.status = "parsed") =>
        \E v \in scan.verdicts : v.res # "True"

C5_Witness ==
    /\ scan.status = "returned"
    /\ ~scan.pjret
    /\ \E p \in scan.problems : Active(p)
    /\ \E p \in scan.problems : ~Active(p)

\* C6: the run exits with status 1 iff an audited repository did not pass;
\* every repository whose audit returned False is in the failing list; the
\* unused set has no part in the exit status.
C6_ExitStatus ==
    /\ \A i \in 1..Len(failing) :
          \E j \in 1..Len(problematic) : problematic[j] = failing[i]
    /\ (pc = "done") =>
          /\ exit \in {0, 1}
          /\ (exit = 1) <=> (failing # <<>>)
    /\ (pc = "crashed") => (exit = 1 /\ cur # NoRepo)

C6_Witness ==
    /\ pc = "done" /\ exit = 0
    /\ reported # {}
    /\ visited # {} /\ matchedBy # {}

\* C7 as stated: at the end of the run a rule is reported unused iff no
\* classified problem matches it, exactly or per field.
C7_UnusedIffNeverMatched ==
    (pc = "done") => reported = Keys \ matchedBy

\* C7 amended: at the end of the run a rule is reported unused iff no
\* classified problem selected it, the rule a problem selects being its
\* exact key when the table has it and else the first rule in table order
\* that matches it per field.
C7_UnusedIffNeverSelected ==
    (pc = "done") => reported = Keys \ chosenBy

C7_Witness ==
    /\ pc = "done"
    /\ reported \cap matchedBy # {}
    /\ chosenBy # {}

\* C8: output that does not parse as JSON fails the audit without the
\* matcher: ok is False, should_skip_advisory was not called for the scan,
\* UNMATCHED_SKIP_ADVISORIES is as the scan found it, audit returns False.
C8_MalformedOutputBypassesMatcher ==
    /\ (scan.status = "unparsable") =>
          /\ ~ok
          /\ pc # "classify"
          /\ scan.verdicts = {}
          /\ UNMATCHED_SKIP_ADVISORIES = scan.before
    /\ (lastAudit.scan.status = "unparsable") =>
          /\ ~lastAudit.res
          /\ lastAudit.scan.verdicts = {}
          /\ UNMATCHED_SKIP_ADVISORIES = lastAudit.scan.before
          /\ \E j \in 1..Len(problematic) : problematic[j] = lastAudit.name

C8_Witness ==
    /\ lastAudit.scan.status = "unparsable"
    /\ ~lastAudit.res
    /\ UNMATCHED_SKIP_ADVISORIES # {}
    /\ UNMATCHED_SKIP_ADVISORIES # Keys

\* C9 as stated: when the scanner exits non-zero, audit returns False and
\* no problem of the scan is classified.
C9_NonZeroExitBypassesMatcher ==
    lastAudit.scan.nonzero =>
        /\ ~lastAudit.res
        /\ lastAudit.scan.verdicts = {}

\* C9 amended: the exit status of the scanner is not read. When the scanner
\* exits non-zero and prints a report, every problem of the report is
\* classified and audit returns True iff each one is SkippedActive; only
\* output that does not parse fails the audit without the matcher.
C9_ExitStatusNotRead ==
    lastAudit.scan.nonzero =>
        /\ (lastAudit.scan.text = "json") =>
              /\ lastAudit.scan.status = "returned"
              /\ { v.tup : v \in lastAudit.scan.verdicts } = lastAudit.scan.problems
              /\ lastAudit.res = (\A p \in lastAudit.scan.problems : Active(p))
        /\ (lastAudit.scan.text # "json") =>
              /\ lastAudit.scan.status = "unparsable"
              /\ ~lastAudit.res
              /\ lastAudit.scan.verdicts = {}

C9_Witness ==
    /\ lastAudit.scan.nonzero
    /\ lastAudit.scan.text = "json"
    /\ lastAudit.scan.problems # {}
    /\ lastAudit.res

\* C10: wildcard matching is per field. In the wildcard scan the call
\* selects the first rule each of whose fields is "*" or equal to the
\* problem's, or none when there is none; a None field of the problem is
\* matched by "*" or None only; classifying a problem with a None field
\* does not raise.
C10_PerFieldWildcards ==
    Called =>
        /\ (ExactRules(last.tup) = {}) =>
              last.rule = (IF MatchingRules(last.tup) = {} THEN 0
                           ELSE First(MatchingRules(last.tup)))
        /\ (last.rule # 0) =>
              \A f \in 1..3 : (last.tup[f] = NoneVal) =>
                                 KeyOf(last.rule)[f] \in {Star, NoneVal}
        /\ HasNone(last.tup) => last.result # "KeyError"

\* C10 without the raise: what the wildcard scan selects.
PerFieldSelection ==
    Called =>
        /\ (ExactRules(last.tup) = {}) =>
              last.rule = (IF MatchingRules(last.tup) = {} THEN 0
                           ELSE First(MatchingRules(last.tup)))
        /\ (last.rule # 0) =>
              \A f \in 1..3 : (last.tup[f] = NoneVal) =>
                                 KeyOf(last.rule)[f] \in {Star, NoneVal}

====
